---------------------------- MODULE Spec2Model ----------------------------
(***************************************************************************)
(* Investment appraisal (amcbhome/investment-appraisal).                   *)
(*                                                                         *)
(* The engine of src/investment_model.py, the alternative workings of      *)
(* src/calculations.py and the script of src/app.py that chains them.      *)
(*                                                                         *)
(* Numbers.  The program computes in IEEE doubles.  The model computes the *)
(* same expressions over exact rationals: a number is a pair <<n, d>> in   *)
(* lowest terms with d > 0, np.nan is the value NaN.  Equalities of the    *)
(* model are therefore equalities of the formulas the code evaluates, not  *)
(* of their rounded results.                                               *)
(***************************************************************************)
EXTENDS Integers, Sequences, FiniteSets, TLC

(***************************************************************************)
(* Exact rational arithmetic                                               *)
(***************************************************************************)
Abs(x) == IF x < 0 THEN -x ELSE x

RECURSIVE GCD(_, _)
GCD(a, b) == IF b = 0 THEN a ELSE GCD(b, a % b)

\* the rational n/d (d # 0) in lowest terms with a positive denominator
Q(n, d) ==
    LET g == GCD(Abs(n), Abs(d))
        s == IF d < 0 THEN -1 ELSE 1
    IN  <<s * (n \div g), s * (d \div g)>>

Num(n) == <<n, 1>>
Zero == Num(0)
One == Num(1)
\* np.nan: not a number (no rational has denominator 0)
NaN == <<0, 0>>

RAdd(a, b) ==
    LET g == GCD(a[2], b[2])
    IN  Q(a[1] * (b[2] \div g) + b[1] * (a[2] \div g), (a[2] \div g) * b[2])
RNeg(a) == <<-a[1], a[2]>>
RSub(a, b) == RAdd(a, RNeg(b))
RMul(a, b) ==
    LET g1 == GCD(Abs(a[1]), b[2])
        g2 == GCD(Abs(b[1]), a[2])
    IN  Q((a[1] \div g1) * (b[1] \div g2), (a[2] \div g2) * (b[2] \div g1))
RDiv(a, b) == RMul(a, Q(b[2], b[1]))
RSign(a) == IF a[1] > 0 THEN 1 ELSE IF a[1] < 0 THEN -1 ELSE 0
RLt(a, b) == RSign(RSub(a, b)) < 0
RLe(a, b) == RSign(RSub(a, b)) <= 0
RMin(a, b) == IF RLt(b, a) THEN b ELSE a
RMax(a, b) == IF RLt(a, b) THEN b ELSE a

RECURSIVE RPow(_, _)
RPow(a, k) == IF k = 0 THEN One ELSE RMul(a, RPow(a, k - 1))

\* sum of f[i] for i in lo..hi (empty sum is 0)
RECURSIVE RSum(_, _, _)
RSum(f, lo, hi) == IF hi < lo THEN Zero ELSE RAdd(RSum(f, lo, hi - 1), f[hi])

\* NaN-propagating float operations (pandas/numpy arithmetic on a missing cell)
NAdd(a, b) == IF a = NaN \/ b = NaN THEN NaN ELSE RAdd(a, b)
NMul(a, b) == IF a = NaN \/ b = NaN THEN NaN ELSE RMul(a, b)

(***************************************************************************)
(* src/investment_model.py                                                 *)
(***************************************************************************)

\* inflate_series: value i (1-based) compounded by (1 + rate)^(i - 1)
inflate_series(series, rate) ==
    [i \in 1..Len(series) |-> RMul(series[i], RPow(RAdd(One, rate), i - 1))]

\* a variant of twdv_after that writes down on cost (straight line)
twdv_after_on_cost(capex, wda_rate, k) ==
    RSub(capex, RMul(Num(k), RMul(wda_rate, capex)))

\* the loop variable twdv of compute_capital_allowances_schedule after k
\* non-final iterations: twdv = twdv - wda_rate * twdv, starting at capex
RECURSIVE twdv_after(_, _, _)
twdv_after(capex, wda_rate, k) ==
    IF k = 0 THEN capex
    ELSE LET twdv == twdv_after(capex, wda_rate, k - 1)
         IN  RSub(twdv, RMul(wda_rate, twdv))

\* row y of the schedule, as the loop body writes it
ca_row(capex, years, wda_rate, disposal_value, cap_to_cost, y) ==
    LET twdv == twdv_after(capex, wda_rate, y - 1)
    IN  IF y < years
        THEN LET allowance == RMul(wda_rate, twdv)
             IN  [TWDV_Start |-> twdv, Allowance |-> allowance,
                  TWDV_End |-> RSub(twdv, allowance), BalancingAdj |-> Zero]
        ELSE LET disp == IF cap_to_cost THEN RMin(disposal_value, capex)
                         ELSE disposal_value
             IN  [TWDV_Start |-> twdv, Allowance |-> Zero,
                  TWDV_End |-> Zero, BalancingAdj |-> RSub(twdv, disp)]

\* the only failure of compute_capital_allowances_schedule: np.zeros(years)
\* raises ValueError for a negative length; no argument is validated
ca_raises(capex, years, wda_rate, disposal_value) == years < 0

\* compute_capital_allowances_schedule: rows 1..years (years = 0 gives an
\* empty frame)
compute_capital_allowances_schedule(capex, years, wda_rate, disposal_value, cap_to_cost) ==
    [y \in 1..years |->
        ca_row(capex, years, wda_rate, disposal_value, cap_to_cost, y)]

\* ca_vec of compute_tax_schedule: Allowance[:-1] + [BalancingAdj[-1]]
ca_vec(ca_df) ==
    [t \in 1..Len(ca_df) |->
        IF t < Len(ca_df) THEN ca_df[t].Allowance ELSE ca_df[t].BalancingAdj]

\* a variant of tax_payable_of without the floor at zero
tax_payable_of_unfloored(taxable, rate) == RMul(taxable, rate)

\* line 74: np.maximum(taxable, 0.0) * tax_rate, for one year
tax_payable_of(taxable, rate) == RMul(RMax(taxable, Zero), rate)

\* compute_tax_schedule: rows 1..N of (TaxableProfit, TaxPayable)
compute_tax_schedule(op_profit, ca_df, rate, tax_lag_years) ==
    LET N == Len(op_profit)
        taxable == [t \in 1..N |-> RSub(op_profit[t], ca_vec(ca_df)[t])]
        tax_payable == [t \in 1..N |-> tax_payable_of(taxable[t], rate)]
        \* the loop over t: cash_tax[pay_year] += tax_payable[t] when
        \* pay_year = t + lag (t counted from 1) is <= years
        posted(p) == [t \in 1..N |->
                        IF t + tax_lag_years = p /\ p <= N
                        THEN tax_payable[t] ELSE Zero]
        cash_tax == [p \in 0..(N + tax_lag_years) |-> RSum(posted(p), 1, N)]
        tax_paid == [y \in 0..N |-> cash_tax[y]]
    IN  [y \in 1..N |-> [TaxableProfit |-> taxable[y], TaxPayable |-> tax_paid[y]]]

\* a variant of compute_working_capital_movements that releases the final
\* year's own requirement
wc_movements_releasing_last(s, wc_pct) ==
    LET N == Len(s)
        wc_required == [t \in 0..N |->
                          IF t = 0 THEN RMul(wc_pct, s[1]) ELSE RMul(wc_pct, s[t])]
        delta == [t \in 0..N |->
                    IF t = 0 THEN wc_required[0]
                    ELSE RSub(wc_required[t], wc_required[t - 1])]
    IN  [delta EXCEPT ![N] = RNeg(wc_required[N])]

\* compute_working_capital_movements: movements indexed 0..N
compute_working_capital_movements(s, wc_pct) ==
    LET N == Len(s)
        \* wc_required with the year-0 entry prepended (Python indices 0..N)
        wc_required == [t \in 0..N |->
                          IF t = 0 THEN RMul(wc_pct, s[1]) ELSE RMul(wc_pct, s[t])]
        delta == [t \in 0..N |->
                    IF t = 0 THEN wc_required[0]
                    ELSE RSub(wc_required[t], wc_required[t - 1])]
    IN  \* wc_mov[-1] = -wc_required[-2]
        [delta EXCEPT ![N] = RNeg(wc_required[N - 1])]

\* discounted_cashflows: df[t] = (1 + r)^(-t), pv = cashflows * df
discounted_cashflows(cashflows, N, r) ==
    LET df == [t \in 0..N |-> RDiv(One, RPow(RAdd(One, r), t))]
    IN  [df |-> df, pv |-> [t \in 0..N |-> RMul(cashflows[t], df[t])]]

\* np.cumsum
cumsum(x, N) == [t \in 0..N |-> RSum(x, 0, t)]

\* the for-loop of payback_period from index t on
RECURSIVE payback_loop(_, _, _, _)
payback_loop(cashflows, cum, N, t) ==
    IF t > N THEN NaN
    ELSE IF RLe(Zero, cum[t])
         THEN IF t = 0 THEN Zero
              ELSE LET prev == cum[t - 1]
                       inc == cashflows[t]
                   IN  IF inc = Zero THEN Num(t)
                       ELSE RAdd(Num(t - 1), RDiv(RNeg(prev), inc))
         ELSE payback_loop(cashflows, cum, N, t + 1)

payback_period(cashflows, N) ==
    LET cum == cumsum(cashflows, N)
    IN  IF RLt(cum[N], Zero) THEN NaN ELSE payback_loop(cashflows, cum, N, 0)

\* the for-loop of discounted_payback_period from index t on
RECURSIVE dpayback_loop(_, _, _, _)
dpayback_loop(pv, cum, N, t) ==
    IF t > N THEN NaN
    ELSE IF RLe(Zero, cum[t])
         THEN IF t = 0 THEN Zero
              ELSE LET prev == cum[t - 1]
                       inc == pv[t]
                   IN  IF inc = Zero THEN Num(t)
                       ELSE RAdd(Num(t - 1), RDiv(RNeg(prev), inc))
         ELSE dpayback_loop(pv, cum, N, t + 1)

discounted_payback_period(cashflows, N, r) ==
    LET pv == [t \in 0..N |-> RDiv(cashflows[t], RPow(RAdd(One, r), t))]
        cum == cumsum(pv, N)
    IN  IF RLt(cum[N], Zero) THEN NaN ELSE dpayback_loop(pv, cum, N, 0)

arr_average_profit(avg_annual_profit_after_tax, initial_investment) ==
    IF initial_investment = Zero THEN NaN
    ELSE RDiv(avg_annual_profit_after_tax, initial_investment)

\* |a| < 10^(-k), computed without forming 10^k
RECURSIVE DivPow10(_, _)
DivPow10(n, k) == IF k = 0 THEN n ELSE DivPow10(n \div 10, k - 1)
BelowTol(a, k) == Abs(a[1]) <= DivPow10(a[2] - 1, k)

\* irr, line 122: np.any(cashflows > 0) and np.any(cashflows < 0)
sign_change(cashflows) ==
    /\ \E i \in DOMAIN cashflows : RSign(cashflows[i]) > 0
    /\ \E i \in DOMAIN cashflows : RSign(cashflows[i]) < 0

\* irr, lines 130-133: npv and d_npv at rate r; cashflows is a tuple, the
\* Python index of entry i is i - 1
newton_npv(cashflows, r) ==
    LET term == [i \in 1..Len(cashflows) |->
                    RDiv(cashflows[i], RPow(RAdd(One, r), i - 1))]
    IN  RSum(term, 1, Len(cashflows))
newton_d_npv(cashflows, r) ==
    LET term == [i \in 1..Len(cashflows) |->
                    RDiv(RMul(Num(-(i - 1)), cashflows[i]), RPow(RAdd(One, r), i))]
    IN  RSum(term, 1, Len(cashflows))

(***************************************************************************)
(* src/calculations.py                                                     *)
(***************************************************************************)

\* working1_capital_allowances: the rows appended to tbl
working1_capital_allowances(cost, rate, years, disposal, cap_to_cost) ==
    LET nonfinal == IF years > 1 THEN years - 1 ELSE 0
        twdv(k) == twdv_after(cost, rate, k)
        disp == IF cap_to_cost THEN RMin(disposal, cost) ELSE disposal
    IN  [i \in 1..(nonfinal + 1) |->
            IF i <= nonfinal
            THEN LET allowance == RMul(twdv(i - 1), rate)
                 IN  [Year |-> i, TWDV_start |-> RAdd(twdv(i), allowance),
                      Allowance |-> allowance, TWDV_end |-> twdv(i),
                      BalancingAdj |-> Zero]
            ELSE [Year |-> years, TWDV_start |-> twdv(nonfinal),
                  Allowance |-> Zero, TWDV_end |-> Zero,
                  BalancingAdj |-> RSub(twdv(nonfinal), disp)]]

\* working2_working_capital: a frame with rows 0..len(sales)-1
working2_working_capital(s, pct) ==
    LET N == Len(s)
        \* wc[i] (Python index i) is sales[i] * pct, sales[i] being s[i + 1]
        wc == [i \in 0..(N - 1) |-> RMul(s[i + 1], pct)]
        mov == [i \in 0..(N - 1) |->
                  IF i = 0 THEN wc[0] ELSE RSub(wc[i], wc[i - 1])]
        released == [mov EXCEPT ![N - 1] = RNeg(wc[N - 1])]
    IN  [i \in 0..(N - 1) |-> [Year |-> i, Movement |-> released[i]]]

\* npv_proforma: rows 0..years; a column assigned from another frame is
\* aligned on the index, rows the other frame lacks become NaN
npv_proforma(s, var_rate, fixed, capex, disposal, ca, wc, rate, discount) ==
    LET N == Len(s)
        Sales == [t \in 0..N |-> IF t = 0 THEN Zero ELSE s[t]]
        VariableCost == [t \in 0..N |-> IF t = 0 THEN Zero ELSE RMul(s[t], var_rate)]
        FixedCost == [t \in 0..N |-> IF t = 0 THEN Zero ELSE fixed]
        OperatingProfitBeforeCA ==
            [t \in 0..N |-> IF t = 0 THEN Zero
                            ELSE RSub(RSub(Sales[t], VariableCost[t]), FixedCost[t])]
        CapitalAllowance ==
            [t \in 0..N |-> IF t = 0 THEN Zero
                            ELSE IF t < N THEN ca[t].Allowance
                            ELSE ca[Len(ca)].BalancingAdj]
        TaxableProfit ==
            [t \in 0..N |-> RSub(OperatingProfitBeforeCA[t], CapitalAllowance[t])]
        Tax == [t \in 0..N |-> RMul(RNeg(RMax(TaxableProfit[t], Zero)), rate)]
        WC_Movement == [t \in 0..N |-> IF t \in DOMAIN wc THEN wc[t].Movement ELSE NaN]
        Capex == [t \in 0..N |-> IF t = 0 THEN RNeg(capex) ELSE Zero]
        Residual == [t \in 0..N |-> IF t = N THEN disposal ELSE Zero]
        NetCashFlow ==
            [t \in 0..N |->
                NAdd(NAdd(NAdd(NAdd(OperatingProfitBeforeCA[t], Tax[t]),
                               WC_Movement[t]), Capex[t]), Residual[t])]
        DF == [t \in 0..N |-> RDiv(One, RPow(RAdd(One, discount), t))]
    IN  [t \in 0..N |->
            [Year |-> t, Sales |-> Sales[t], VariableCost |-> VariableCost[t],
             FixedCost |-> FixedCost[t],
             OperatingProfitBeforeCA |-> OperatingProfitBeforeCA[t],
             CapitalAllowance |-> CapitalAllowance[t],
             TaxableProfit |-> TaxableProfit[t], Tax |-> Tax[t],
             WC_Movement |-> WC_Movement[t], Capex |-> Capex[t],
             Residual |-> Residual[t], NetCashFlow |-> NetCashFlow[t],
             DF |-> DF[t], PV |-> NMul(NetCashFlow[t], DF[t])]]

(***************************************************************************)
(* State                                                                   *)
(***************************************************************************)
VARIABLES
    pc,                   \* the statement the run is at
    sidebar,              \* app.py: the values of the sidebar widgets
    df_inputs,            \* app.py: the per-year table the data editor returns
    sales,                \* app.py: the priced series (years 1..N) ...
    var_cost,
    fixed_cost,
    discount_rate,
    wc_mov,               \* app.py: working-capital movements, years 0..N
    ca_df,                \* the capital-allowance schedule
    op_profit_before_ca,  \* app.py: sales - var_cost - fixed_cost
    tax_df,               \* app.py: the tax schedule
    cf,                   \* app.py: the cash-flow table, years 0..N
    metrics,              \* app.py: npv_value, pb, dpb, arr_val
    call,                 \* a direct call of an engine function: its arguments
    ret,                  \* ... and what it returned
    np_has_irr,           \* whether the installed numpy still provides np.irr
    r,                    \* irr: the Newton estimate
    iter,                 \* irr: iterations of the Newton loop entered so far
    wc_df,                \* calculations.py: the frame of working2_working_capital
    proforma              \* calculations.py: the frame of npv_proforma

vars == <<pc, sidebar, df_inputs, sales, var_cost, fixed_cost, discount_rate,
          wc_mov, ca_df, op_profit_before_ca, tax_df, cf, metrics, call, ret,
          np_has_irr, r, iter, wc_df, proforma>>

appVars == <<sidebar, df_inputs, sales, var_cost, fixed_cost, discount_rate,
             wc_mov, op_profit_before_ca, tax_df, cf, metrics>>
irrVars == <<np_has_irr, r, iter>>
calcVars == <<wc_df, proforma>>

\* the value of a variable a run does not use or has not assigned yet
Unset == <<>>

(***************************************************************************)
(* Bounds and input sets                                                   *)
(***************************************************************************)
MaxYears == 3
MaxLag == 2

Hundred == Num(100)
Pct(x) == RDiv(x, Hundred)

\* sidebar values; rates are entered in percent
AppCapex == {Num(0), Num(8)}
AppResidual == {Num(2), Num(12)}
AppWda == {Num(0), Num(50)}
AppWcPct == {Num(0), Num(25)}
AppTaxRate == {Num(25)}
AppDiscRate == {Num(10)}
\* <<pricing_mode, sales_infl, varcost_infl, fixedcost_infl>>
AppPricing == {<<"Real", Num(3), Num(3), Num(3)>>,
               <<"Money (nominal)", Num(0), Num(0), Num(0)>>,
               <<"Money (nominal)", Num(100), Num(50), Num(100)>>}
AppSales == {Num(8), Num(16)}
AppFixedCost == {Num(2), Num(10)}
AppVarRate == Q(1, 2)

Sidebars ==
    {[years |-> y, capex_t0 |-> c, residual_nominal |-> res,
      pricing_mode |-> p[1], disc_rate_input |-> d,
      sales_infl |-> p[2], varcost_infl |-> p[3], fixedcost_infl |-> p[4],
      tax_rate |-> t, tax_lag_years |-> l, wda_rate |-> w,
      pool_restrict_to_cost |-> cap, wc_pct_sales |-> wc] :
        y \in 1..MaxYears, c \in AppCapex, res \in AppResidual, p \in AppPricing,
        d \in AppDiscRate, t \in AppTaxRate, l \in 0..MaxLag, w \in AppWda,
        cap \in BOOLEAN, wc \in AppWcPct}

\* the edited table: one row per year, any sales, one fixed cost
Tables(years) ==
    {[y \in 1..years |-> [Sales |-> s[y], VariableCostRate |-> AppVarRate,
                          FixedCost |-> f]] :
        s \in [1..years -> AppSales], f \in AppFixedCost}

(***************************************************************************)
(* src/app.py: one run of the script from the widgets to the metrics.      *)
(* The call of irr (line 137) is modelled on its own below (SpecIrr).      *)
(***************************************************************************)
Column(df, name) == [i \in DOMAIN df |-> df[i][name]]

AppInit ==
    /\ pc = "price"
    /\ sidebar \in Sidebars
    /\ df_inputs \in Tables(sidebar.years)
    /\ sales = Unset /\ var_cost = Unset /\ fixed_cost = Unset
    /\ discount_rate = Unset /\ wc_mov = Unset /\ ca_df = Unset
    /\ op_profit_before_ca = Unset /\ tax_df = Unset /\ cf = Unset
    /\ metrics = Unset
    /\ call = Unset /\ ret = Unset
    /\ np_has_irr = Unset /\ r = Unset /\ iter = Unset
    /\ wc_df = Unset /\ proforma = Unset

\* lines 59-73: the nominal or real series
PriceSeries ==
    /\ pc = "price"
    /\ IF sidebar.pricing_mode = "Money (nominal)"
       THEN /\ sales' = inflate_series(Column(df_inputs, "Sales"),
                                       Pct(sidebar.sales_infl))
            /\ var_cost' = inflate_series(
                    [i \in DOMAIN df_inputs |->
                        RMul(df_inputs[i].Sales, df_inputs[i].VariableCostRate)],
                    Pct(sidebar.varcost_infl))
            /\ fixed_cost' = inflate_series(Column(df_inputs, "FixedCost"),
                                            Pct(sidebar.fixedcost_infl))
       ELSE /\ sales' = Column(df_inputs, "Sales")
            /\ var_cost' = [i \in DOMAIN df_inputs |->
                               RMul(df_inputs[i].Sales, df_inputs[i].VariableCostRate)]
            /\ fixed_cost' = Column(df_inputs, "FixedCost")
    /\ discount_rate' = Pct(sidebar.disc_rate_input)
    /\ pc' = "wc"
    /\ UNCHANGED <<sidebar, df_inputs, wc_mov, ca_df, op_profit_before_ca,
                   tax_df, cf, metrics, call, ret, irrVars, calcVars>>

\* lines 75-77
WorkingCapital ==
    /\ pc = "wc"
    /\ wc_mov' = compute_working_capital_movements(sales, Pct(sidebar.wc_pct_sales))
    /\ pc' = "ca"
    /\ UNCHANGED <<sidebar, df_inputs, sales, var_cost, fixed_cost, discount_rate,
                   ca_df, op_profit_before_ca, tax_df, cf, metrics, call, ret,
                   irrVars, calcVars>>

\* lines 79-86
CapitalAllowances ==
    /\ pc = "ca"
    /\ ca_df' = compute_capital_allowances_schedule(
                    sidebar.capex_t0, sidebar.years, Pct(sidebar.wda_rate),
                    sidebar.residual_nominal, sidebar.pool_restrict_to_cost)
    /\ pc' = "tax"
    /\ UNCHANGED <<sidebar, df_inputs, sales, var_cost, fixed_cost, discount_rate,
                   wc_mov, op_profit_before_ca, tax_df, cf, metrics, call, ret,
                   irrVars, calcVars>>

\* lines 88-96
TaxSchedule ==
    /\ pc = "tax"
    /\ op_profit_before_ca' =
            [t \in 1..Len(sales) |-> RSub(RSub(sales[t], var_cost[t]), fixed_cost[t])]
    /\ tax_df' = compute_tax_schedule(op_profit_before_ca', ca_df,
                                      Pct(sidebar.tax_rate), sidebar.tax_lag_years)
    /\ pc' = "cf"
    /\ UNCHANGED <<sidebar, df_inputs, sales, var_cost, fixed_cost, discount_rate,
                   wc_mov, ca_df, cf, metrics, call, ret, irrVars, calcVars>>

\* a variant of net_cash_flow that also deducts the year's allowance
net_cash_flow_less_allowance(row) ==
    RSub(RAdd(RAdd(RAdd(RAdd(row.OpCashFlow_preTax, row.CashTax), row.WC_Movement),
                   row.Capex), row.ResidualValue), row.CapitalAllowances)

\* line 129: the sum that makes NetCashFlow
net_cash_flow(row) ==
    RAdd(RAdd(RAdd(RAdd(row.OpCashFlow_preTax, row.CashTax), row.WC_Movement),
              row.Capex), row.ResidualValue)

\* lines 98-126: row t of the table, before NetCashFlow
cf_row(t) ==
    LET N == sidebar.years
        Sales == IF t = 0 THEN Zero ELSE sales[t]
        VariableCosts == IF t = 0 THEN Zero ELSE var_cost[t]
        FixedCosts == IF t = 0 THEN Zero ELSE fixed_cost[t]
        Tax == IF t \in DOMAIN tax_df THEN tax_df[t].TaxPayable ELSE Zero
    IN  [Sales |-> Sales, VariableCosts |-> VariableCosts, FixedCosts |-> FixedCosts,
         OperatingProfitBeforeCA |-> IF t = 0 THEN Zero ELSE op_profit_before_ca[t],
         CapitalAllowances |-> IF t = 0 THEN Zero
                               ELSE IF t < N THEN ca_df[t].Allowance
                               ELSE ca_df[Len(ca_df)].BalancingAdj,
         TaxableProfit |-> IF t = 0 THEN Zero ELSE tax_df[t].TaxableProfit,
         Tax |-> Tax,
         WC_Movement |-> IF t \in DOMAIN wc_mov THEN wc_mov[t] ELSE Zero,
         Capex |-> IF t = 0 THEN RNeg(sidebar.capex_t0) ELSE Zero,
         ResidualValue |-> IF t = N THEN sidebar.residual_nominal ELSE Zero,
         OpCashFlow_preTax |-> RSub(RSub(Sales, VariableCosts), FixedCosts),
         CashTax |-> RNeg(Tax)]

\* lines 98-129
CashFlows ==
    /\ pc = "cf"
    /\ cf' = [t \in 0..sidebar.years |->
                [NetCashFlow |-> net_cash_flow(cf_row(t))] @@ cf_row(t)]
    /\ pc' = "appraise"
    /\ UNCHANGED <<sidebar, df_inputs, sales, var_cost, fixed_cost, discount_rate,
                   wc_mov, ca_df, op_profit_before_ca, tax_df, metrics, call, ret,
                   irrVars, calcVars>>

\* lines 131-144 (without line 137)
Appraise ==
    /\ pc = "appraise"
    /\ LET N == sidebar.years
           ncf == Column(cf, "NetCashFlow")
           disc == discounted_cashflows(ncf, N, discount_rate)
           after_tax == [t \in 1..N |->
                            RMul(tax_df[t].TaxableProfit,
                                 RSub(One, Pct(sidebar.tax_rate)))]
           avg_profit == RDiv(RSum(after_tax, 1, N), Num(N))
       IN  /\ cf' = [t \in 0..N |->
                        [DiscountFactor |-> disc.df[t], PV |-> disc.pv[t]] @@ cf[t]]
           /\ metrics' = [npv_value |-> RSum(disc.pv, 0, N),
                          pb |-> payback_period(ncf, N),
                          dpb |-> discounted_payback_period(ncf, N, discount_rate),
                          arr_val |-> arr_average_profit(avg_profit, sidebar.capex_t0)]
    /\ pc' = "done"
    /\ UNCHANGED <<sidebar, df_inputs, sales, var_cost, fixed_cost, discount_rate,
                   wc_mov, ca_df, op_profit_before_ca, tax_df, call, ret,
                   irrVars, calcVars>>

AppNext ==
    \/ PriceSeries
    \/ WorkingCapital
    \/ CapitalAllowances
    \/ TaxSchedule
    \/ CashFlows
    \/ Appraise

Spec == AppInit /\ [][AppNext]_vars

(***************************************************************************)
(* Direct calls of the engine's functions: the arguments are in call, the  *)
(* result in ret.  A run that only calls a function leaves the script's    *)
(* variables unset.                                                        *)
(***************************************************************************)
CallInit ==
    /\ pc = "call"
    /\ ret = Unset
    /\ sidebar = Unset /\ df_inputs = Unset
    /\ sales = Unset /\ var_cost = Unset /\ fixed_cost = Unset
    /\ discount_rate = Unset /\ wc_mov = Unset /\ ca_df = Unset
    /\ op_profit_before_ca = Unset /\ tax_df = Unset /\ cf = Unset
    /\ metrics = Unset
    /\ np_has_irr = Unset /\ r = Unset /\ iter = Unset
    /\ wc_df = Unset /\ proforma = Unset

Return(v) ==
    /\ ret' = v
    /\ pc' = "returned"
    /\ UNCHANGED <<call, ca_df, appVars, irrVars, calcVars>>

(***************************************************************************)
(* The capital-allowance schedules, on any arguments                       *)
(***************************************************************************)
CaCapex == {Num(-4), Num(0), Num(4), Num(8)}
CaWda == {Q(-1, 2), Zero, Q(1, 4), Q(1, 2), One, Q(3, 2)}
CaDisposal == {Zero, Num(2), Num(12)}

CaInit ==
    /\ CallInit
    /\ call \in [fn : {"compute_capital_allowances_schedule",
                       "working1_capital_allowances"},
                 capex : CaCapex, years : (-1)..MaxYears, wda_rate : CaWda,
                 disposal_value : CaDisposal, cap_to_cost : BOOLEAN]

Call_compute_capital_allowances_schedule ==
    /\ pc = "call"
    /\ call.fn = "compute_capital_allowances_schedule"
    /\ IF ca_raises(call.capex, call.years, call.wda_rate, call.disposal_value)
       THEN Return([raised |-> "ValueError", value |-> Unset])
       ELSE Return([raised |-> "",
                    value |-> compute_capital_allowances_schedule(
                                 call.capex, call.years, call.wda_rate,
                                 call.disposal_value, call.cap_to_cost)])

Call_working1_capital_allowances ==
    /\ pc = "call"
    /\ call.fn = "working1_capital_allowances"
    /\ Return([raised |-> "",
               value |-> working1_capital_allowances(
                            call.capex, call.wda_rate, call.years,
                            call.disposal_value, call.cap_to_cost)])

CaNext ==
    \/ Call_compute_capital_allowances_schedule
    \/ Call_working1_capital_allowances

SpecCA == CaInit /\ [][CaNext]_vars

(***************************************************************************)
(* compute_tax_schedule                                                    *)
(***************************************************************************)
TaxProfit == {Num(-4), Zero, Num(6)}
TaxRates == {Zero, Q(1, 4)}
\* the schedules the tax engine is given: 8 of cost written down at 50%,
\* sold for 2 (balancing allowance) or for 12, capped to 8 (balancing charge)
TaxSchedules(N) ==
    {compute_capital_allowances_schedule(Num(8), N, Q(1, 2), d, TRUE) :
        d \in {Num(2), Num(12)}}

TaxInit ==
    /\ CallInit
    /\ \E N \in 1..MaxYears :
          call \in [fn : {"compute_tax_schedule"},
                    op_profit_before_ca : [1..N -> TaxProfit],
                    ca_df : TaxSchedules(N), tax_rate : TaxRates,
                    tax_lag_years : 0..MaxLag]

Call_compute_tax_schedule ==
    /\ pc = "call"
    /\ call.fn = "compute_tax_schedule"
    /\ Return(compute_tax_schedule(call.op_profit_before_ca, call.ca_df,
                                   call.tax_rate, call.tax_lag_years))

SpecTax == TaxInit /\ [][Call_compute_tax_schedule]_vars

(***************************************************************************)
(* compute_working_capital_movements                                       *)
(***************************************************************************)
WcSales == {Zero, Num(8), Num(16)}
WcPct == {Zero, Q(1, 10), Q(1, 2), One}

WcInit ==
    /\ CallInit
    /\ \E N \in 1..MaxYears :
          call \in [fn : {"compute_working_capital_movements"},
                    sales : [1..N -> WcSales], wc_pct : WcPct]

Call_compute_working_capital_movements ==
    /\ pc = "call"
    /\ call.fn = "compute_working_capital_movements"
    /\ Return(compute_working_capital_movements(call.sales, call.wc_pct))

SpecWC == WcInit /\ [][Call_compute_working_capital_movements]_vars

(***************************************************************************)
(* payback_period and discounted_payback_period                            *)
(***************************************************************************)
PbCash == {Num(-3), Num(-1), Zero, Num(2)}
PbRates == {Zero, Q(1, 2)}

PbInit ==
    /\ CallInit
    /\ \E N \in 0..MaxYears :
          \/ call \in [fn : {"payback_period"}, cashflows : [0..N -> PbCash],
                       N : {N}, r : {Zero}]
          \/ call \in [fn : {"discounted_payback_period"},
                       cashflows : [0..N -> PbCash], N : {N}, r : PbRates]

Call_payback_period ==
    /\ pc = "call"
    /\ call.fn = "payback_period"
    /\ Return(payback_period(call.cashflows, call.N))

Call_discounted_payback_period ==
    /\ pc = "call"
    /\ call.fn = "discounted_payback_period"
    /\ Return(discounted_payback_period(call.cashflows, call.N, call.r))

PbNext ==
    \/ Call_payback_period
    \/ Call_discounted_payback_period

SpecPayback == PbInit /\ [][PbNext]_vars

(***************************************************************************)
(* irr (src/investment_model.py), one action per step of its control flow  *)
(***************************************************************************)
MaxIter == 100
TolDigits == 8
DerivTolDigits == 12
Guess == Q(1, 10)

\* cash-flow series: an exact root at the guess, a double root at the guess
\* (zero derivative), two series without a real root on which Newton's
\* iteration from 10% cycles, one whose first step lands on r = -1, and
\* three without a sign change
IrrCashflows ==
    {<<Num(-10), Num(11)>>,
     <<Num(-100), Num(220), Num(-121)>>,
     <<Num(-4700), Num(6540), Num(-2387)>>,
     <<Num(-2300), Num(5085), Num(-2948)>>,
     <<Num(-20), Num(11)>>,
     <<Num(10), Num(11)>>,
     <<Num(-10), Num(-11)>>,
     <<Zero, Zero>>}

\* what np.irr, where numpy provides it, hands back: a float or nan
NumpyIrrValues == {NaN, Q(1, 10), Q(-9, 20)}

IrrInit ==
    /\ pc = "irr"
    /\ call \in [fn : {"irr"}, cashflows : IrrCashflows, guess : {Guess}]
    /\ np_has_irr \in BOOLEAN
    /\ r = Unset /\ iter = 0
    /\ ret = Unset
    /\ sidebar = Unset /\ df_inputs = Unset
    /\ sales = Unset /\ var_cost = Unset /\ fixed_cost = Unset
    /\ discount_rate = Unset /\ wc_mov = Unset /\ ca_df = Unset
    /\ op_profit_before_ca = Unset /\ tax_df = Unset /\ cf = Unset
    /\ metrics = Unset
    /\ wc_df = Unset /\ proforma = Unset

\* lines 122-123
IrrNoSignChange ==
    /\ pc = "irr"
    /\ ~sign_change(call.cashflows)
    /\ ret' = [value |-> NaN, from |-> "no_sign_change"]
    /\ pc' = "returned"
    /\ UNCHANGED <<call, ca_df, appVars, irrVars, calcVars>>

\* lines 124-125: np.irr exists and answers
IrrNumpy ==
    /\ pc = "irr"
    /\ sign_change(call.cashflows)
    /\ np_has_irr
    /\ \E v \in NumpyIrrValues : ret' = [value |-> v, from |-> "np.irr"]
    /\ pc' = "returned"
    /\ UNCHANGED <<call, ca_df, appVars, irrVars, calcVars>>

\* lines 126-128: np.irr is gone (AttributeError), fall back to Newton
IrrExcept ==
    /\ pc = "irr"
    /\ sign_change(call.cashflows)
    /\ ~np_has_irr
    /\ r' = call.guess
    /\ pc' = "newton"
    /\ UNCHANGED <<call, ret, ca_df, appVars, np_has_irr, iter, calcVars>>

\* lines 129-140: one iteration of the loop.  With r nan, or 1 + r = 0
\* (0/0 in d_npv), d_npv and r_new are nan and no test breaks the loop.
NewtonStep ==
    /\ pc = "newton"
    /\ iter < MaxIter
    /\ iter' = iter + 1
    /\ IF r = NaN \/ RAdd(One, r) = Zero
       THEN /\ r' = NaN
            /\ pc' = IF iter' = MaxIter THEN "exhausted" ELSE "newton"
       ELSE LET npv == newton_npv(call.cashflows, r)
                d_npv == newton_d_npv(call.cashflows, r)
            IN  IF BelowTol(d_npv, DerivTolDigits)
                THEN /\ r' = r
                     /\ pc' = "break_derivative"
                ELSE LET r_new == RSub(r, RDiv(npv, d_npv))
                     IN  /\ r' = r_new
                         /\ pc' = IF BelowTol(RSub(r_new, r), TolDigits)
                                  THEN "break_converged"
                                  ELSE IF iter' = MaxIter THEN "exhausted"
                                  ELSE "newton"
    /\ UNCHANGED <<call, ret, ca_df, appVars, np_has_irr, calcVars>>

\* line 141: return r, however the loop ended
IrrReturn ==
    /\ pc \in {"break_derivative", "break_converged", "exhausted"}
    /\ ret' = [value |-> r, from |-> pc]
    /\ pc' = "returned"
    /\ UNCHANGED <<call, ca_df, appVars, irrVars, calcVars>>

IrrNext ==
    \/ IrrNoSignChange
    \/ IrrNumpy
    \/ IrrExcept
    \/ NewtonStep
    \/ IrrReturn

SpecIrr == IrrInit /\ [][IrrNext]_vars

(***************************************************************************)
(* src/calculations.py: the two workings, then the pro-forma               *)
(***************************************************************************)
PfSales == {Num(8), Num(16)}
PfPct == {Zero, Q(1, 10)}
PfCapex == {Num(8)}
PfDisposal == {Num(2), Num(12)}

PfInit ==
    /\ pc = "working1"
    /\ \E N \in 1..MaxYears :
          call \in [fn : {"npv_proforma"}, sales : [1..N -> PfSales],
                    var_rate : {Q(1, 2)}, fixed_cost : {Num(2)},
                    capex : PfCapex, disposal : PfDisposal, rate : {Q(1, 2)},
                    cap_to_cost : BOOLEAN, pct : PfPct, tax_rate : {Q(1, 4)},
                    discount : {Q(1, 10)}]
    /\ ca_df = Unset /\ wc_df = Unset /\ proforma = Unset
    /\ ret = Unset
    /\ sidebar = Unset /\ df_inputs = Unset
    /\ sales = Unset /\ var_cost = Unset /\ fixed_cost = Unset
    /\ discount_rate = Unset /\ wc_mov = Unset
    /\ op_profit_before_ca = Unset /\ tax_df = Unset /\ cf = Unset
    /\ metrics = Unset
    /\ np_has_irr = Unset /\ r = Unset /\ iter = Unset

Working1 ==
    /\ pc = "working1"
    /\ ca_df' = working1_capital_allowances(call.capex, call.rate, Len(call.sales),
                                            call.disposal, call.cap_to_cost)
    /\ pc' = "working2"
    /\ UNCHANGED <<call, ret, appVars, irrVars, calcVars>>

Working2 ==
    /\ pc = "working2"
    /\ wc_df' = working2_working_capital(call.sales, call.pct)
    /\ pc' = "proforma"
    /\ UNCHANGED <<call, ret, ca_df, appVars, irrVars, proforma>>

Proforma ==
    /\ pc = "proforma"
    /\ proforma' = npv_proforma(call.sales, call.var_rate, call.fixed_cost,
                                call.capex, call.disposal, ca_df, wc_df,
                                call.tax_rate, call.discount)
    /\ pc' = "returned"
    /\ UNCHANGED <<call, ret, ca_df, appVars, irrVars, wc_df>>

PfNext ==
    \/ Working1
    \/ Working2
    \/ Proforma

SpecProforma == PfInit /\ [][PfNext]_vars

(***************************************************************************)
(* Properties                                                              *)
(***************************************************************************)

\* C1 (Spec): in the table app.py builds, every year t in 0..N has
\* NetCashFlow(t) = OperatingProfitBeforeCA(t) + WC_Movement(t)
\* - CashTaxPaid(t) + Capex(t) + ResidualValue(t), with Capex = -capex at
\* year 0 only and ResidualValue = residual at year N only; the year's capital
\* allowance is not a term.
C1_NetCashFlowIdentity ==
    pc \in {"appraise", "done"} =>
        \A t \in 0..sidebar.years :
            LET profit == IF t = 0 THEN Zero ELSE op_profit_before_ca[t]
                cash_tax == IF t = 0 THEN Zero ELSE tax_df[t].TaxPayable
                capex == IF t = 0 THEN RNeg(sidebar.capex_t0) ELSE Zero
                residual == IF t = sidebar.years THEN sidebar.residual_nominal
                            ELSE Zero
            IN  /\ cf[t].OperatingProfitBeforeCA = profit
                /\ cf[t].Capex = capex
                /\ cf[t].ResidualValue = residual
                /\ cf[t].NetCashFlow =
                       RAdd(RAdd(RSub(RAdd(profit, wc_mov[t]), cash_tax), capex),
                            residual)

C1_Witness ==
    /\ pc = "done"
    /\ sidebar.years >= 2
    /\ \E t \in 1..sidebar.years :
          /\ cf[t].CapitalAllowances # Zero
          /\ cf[t].Tax # Zero
          /\ cf[t].WC_Movement # Zero

\* C2 (Spec): working capital is an outflow at the start and an inflow at the
\* end: NetCashFlow(0) = -capex - wc_pct * sales(1), and the final-year
\* movement adds a non-negative amount to NetCashFlow(N).
C2_WorkingCapitalSigns ==
    pc = "done" =>
        /\ cf[0].NetCashFlow =
               RSub(RNeg(sidebar.capex_t0),
                    RMul(Pct(sidebar.wc_pct_sales), sales[1]))
        /\ RLe(Zero, cf[sidebar.years].WC_Movement)

\* C3 (SpecTax): taxable(t) is operating profit less the allowance (t < N)
\* or less the balancing adjustment (t = N); the cash tax of year y is
\* tax_rate * max(taxable(y - lag), 0) when y - lag >= 1 and 0 otherwise; a
\* liability with t + lag > N is recorded in no year; a loss year contributes
\* zero, never a negative amount.
C3_TaxSchedule ==
    pc = "returned" =>
        LET N == Len(call.op_profit_before_ca)
            lag == call.tax_lag_years
            taxable(t) ==
                RSub(call.op_profit_before_ca[t],
                     IF t < N THEN call.ca_df[t].Allowance
                     ELSE call.ca_df[t].BalancingAdj)
            liability(t) == RMul(call.tax_rate, RMax(taxable(t), Zero))
            paid == [y \in 1..N |-> ret[y].TaxPayable]
            due == [t \in 1..N |-> IF t + lag <= N THEN liability(t) ELSE Zero]
        IN  /\ DOMAIN ret = 1..N
            /\ \A y \in 1..N :
                  /\ ret[y].TaxableProfit = taxable(y)
                  /\ ret[y].TaxPayable =
                         IF y - lag >= 1 THEN liability(y - lag) ELSE Zero
                  /\ RLe(Zero, ret[y].TaxPayable)
            /\ \A t \in 1..N :
                  RLt(taxable(t), Zero) /\ t + lag <= N
                      => ret[t + lag].TaxPayable = Zero
            /\ RSum(paid, 1, N) = RSum(due, 1, N)

C3_Witness ==
    /\ pc = "returned"
    /\ call.tax_lag_years >= 1
    /\ LET N == Len(call.op_profit_before_ca) IN
          /\ \E t \in 1..N :
                /\ t + call.tax_lag_years <= N
                /\ RLt(ret[t].TaxableProfit, Zero)
          /\ \E t \in 1..N :
                /\ t + call.tax_lag_years > N
                /\ RLt(Zero, ret[t].TaxableProfit)
                /\ RLt(Zero, call.tax_rate)
          /\ \E y \in 1..N : RLt(Zero, ret[y].TaxPayable)

\* valid arguments of the allowance engine
CaValid ==
    /\ RLe(Zero, call.capex)
    /\ RLe(Zero, call.wda_rate) /\ RLe(call.wda_rate, One)
    /\ call.years >= 1

\* C4 (SpecCA): for capex >= 0, a rate in [0,1] and N >= 1 years the schedule
\* opens year 1 at capex; in each non-final year allowance = rate * opening,
\* closing = opening - allowance = next opening, balancing adjustment 0; the
\* value entering year N is capex * (1 - rate)^(N - 1); year N has no ordinary
\* allowance and its balancing adjustment is that value less min(disposal,
\* capex) when capped, less disposal otherwise; N = 1 gives one row.  Both
\* compute_capital_allowances_schedule and working1_capital_allowances.
C4_AllowanceSchedule ==
    pc = "returned" /\ CaValid =>
        LET N == call.years
            rows == ret.value
            entering == RMul(call.capex, RPow(RSub(One, call.wda_rate), N - 1))
            disp == IF call.cap_to_cost THEN RMin(call.disposal_value, call.capex)
                    ELSE call.disposal_value
        IN  /\ ret.raised = ""
            /\ Len(rows) = N
            /\ IF call.fn = "compute_capital_allowances_schedule"
               THEN /\ rows[1].TWDV_Start = call.capex
                    /\ \A y \in 1..(N - 1) :
                          /\ rows[y].Allowance =
                                 RMul(call.wda_rate, rows[y].TWDV_Start)
                          /\ rows[y].TWDV_End =
                                 RSub(rows[y].TWDV_Start, rows[y].Allowance)
                          /\ rows[y + 1].TWDV_Start = rows[y].TWDV_End
                          /\ rows[y].BalancingAdj = Zero
                    /\ rows[N].TWDV_Start = entering
                    /\ rows[N].Allowance = Zero
                    /\ rows[N].BalancingAdj = RSub(entering, disp)
               ELSE /\ rows[1].TWDV_start = call.capex
                    /\ \A y \in 1..(N - 1) :
                          /\ rows[y].Year = y
                          /\ rows[y].Allowance =
                                 RMul(call.wda_rate, rows[y].TWDV_start)
                          /\ rows[y].TWDV_end =
                                 RSub(rows[y].TWDV_start, rows[y].Allowance)
                          /\ rows[y + 1].TWDV_start = rows[y].TWDV_end
                          /\ rows[y].BalancingAdj = Zero
                    /\ rows[N].Year = N
                    /\ rows[N].TWDV_start = entering
                    /\ rows[N].Allowance = Zero
                    /\ rows[N].BalancingAdj = RSub(entering, disp)

C4_Witness ==
    /\ pc = "returned"
    /\ CaValid
    /\ call.fn = "compute_capital_allowances_schedule"
    /\ call.years >= 3
    /\ RLt(Zero, call.wda_rate) /\ RLt(call.wda_rate, One)
    /\ RLt(Zero, call.capex)
    /\ call.cap_to_cost /\ RLt(call.capex, call.disposal_value)
    /\ RLt(ret.value[call.years].BalancingAdj, Zero)

\* C5 (SpecWC): the movement series has exactly N + 1 entries, years 0..N,
\* and they sum to zero.
C5_MovementsSumToZero ==
    pc = "returned" =>
        LET N == Len(call.sales)
        IN  /\ DOMAIN ret = 0..N
            /\ RSum(ret, 0, N) = Zero

C5_Witness ==
    /\ pc = "returned"
    /\ Len(call.sales) >= 3
    /\ RLt(Zero, call.wc_pct)
    /\ \A t \in 1..(Len(call.sales) - 1) : call.sales[t] # call.sales[t + 1]
    /\ \A t \in 0..Len(call.sales) : t # 1 => ret[t] # Zero

claimed_payback(x, N) ==
    LET cum == cumsum(x, N)
        reached == {t \in 0..N : RLe(Zero, cum[t])}
    IN  IF reached = {} THEN NaN
        ELSE LET t == CHOOSE u \in reached : \A v \in reached : u <= v
             IN  IF t = 0 THEN Zero
                 ELSE RAdd(Num(t - 1), RDiv(RNeg(cum[t - 1]), x[t]))

\* C7 (SpecPayback): payback_period is given by the smallest t whose
\* cumulative cash flow is >= 0 (0 at t = 0, else (t-1) + -cum(t-1)/flow(t)),
\* a defined result lies in [0, N], and it is undefined exactly when no such
\* t exists; discounted_payback_period is the same on flow(t) / (1+r)^t.
C7_Payback ==
    pc = "returned" =>
        LET N == call.N
            series == IF call.fn = "payback_period" THEN call.cashflows
                      ELSE [t \in 0..N |->
                              RDiv(call.cashflows[t], RPow(RAdd(One, call.r), t))]
            cum == cumsum(series, N)
        IN  /\ ret = claimed_payback(series, N)
            /\ ret # NaN => RLe(Zero, ret) /\ RLe(ret, Num(N))
            /\ ret = NaN <=> \A t \in 0..N : RLt(cum[t], Zero)

\* C8 (SpecIrr): the Newton iteration ends within its cap of 100 iterations,
\* and when it ends by reaching the cap (no convergence, derivative never
\* zero) irr reports the IRR as undefined instead of the last estimate.
C8_CapReportsUndefined ==
    /\ iter <= MaxIter
    /\ pc = "returned" /\ ret.from = "exhausted" => ret.value = NaN

\* C9 (SpecCA): compute_capital_allowances_schedule rejects negative capex,
\* a rate outside [0,1] and years < 1 with an error and returns no schedule.
C9_InvalidInputRejected ==
    pc = "returned" /\ call.fn = "compute_capital_allowances_schedule" /\ ~CaValid
        => ret.raised # ""

\* C10 (SpecProforma): for N years of sales working2_working_capital returns
\* N + 1 movements, years 0..N, so every row 0..N of the pro-forma has a
\* defined working-capital movement and a defined NetCashFlow.
C10_ProformaMovements ==
    /\ pc \in {"proforma", "returned"} => DOMAIN wc_df = 0..Len(call.sales)
    /\ pc = "returned" =>
          \A t \in 0..Len(call.sales) :
              /\ proforma[t].WC_Movement # NaN
              /\ proforma[t].NetCashFlow # NaN

=============================================================================
